---- MODULE Spec2Model ----
(***************************************************************************)
(* Image-to-PDF Organizer: the conversion service (PDFConverter), the      *)
(* extension validation (ImageHandler.is_valid_image) and the plugin       *)
(* manager (PluginManager), as state machines.                             *)
(*                                                                         *)
(* Nine specifications share the variables below; each drives one part of  *)
(* the program and leaves the other parts in their initial state:          *)
(*   Spec         one convert_images_to_pdf call, statement by statement   *)
(*   SpecReuse    two calls on the same PDFConverter object                *)
(*   SpecFit      the page-fitting arithmetic of _prepare_images           *)
(*   SpecValid    is_valid_image over path strings                         *)
(*   SpecPlugins  discover / load / unload / reload / load_all             *)
(*   SpecHooks    register_hook / unregister_hook / execute_hook           *)
(*   SpecTransform  the transform steps of cli_enhanced.main and of        *)
(*                batch_process_folder                                     *)
(*   SpecThreads  threads that call get_plugin_manager and use a plugin    *)
(*   SpecCli      the validation of the paths given on the command line    *)
(***************************************************************************)
EXTENDS Integers, Sequences, FiniteSets, TLC

VARIABLES
    (* ---- PDFConverter.convert_images_to_pdf ---- *)
    pc,                 \* position inside convert_images_to_pdf
    image_paths,        \* argument: the ordered list of source images
    page_size,          \* argument
    compress,           \* argument
    compression_quality,\* argument
    callback,           \* argument: "none", "ok" or "raises"
    prepared_paths,     \* _prepare_images' local list (temp file names)
    temp_dir,           \* files inside self.temp_dir: name -> content
    out_file,           \* the file at output_path
    out_before,         \* the file at output_path when the call started
    packaged,           \* the image lists img2pdf.convert was called with
    progress_values,    \* values the callback has been invoked with
    exc,                \* what the call raised, and where
    alive,              \* the PDFConverter object has not been finalized (__del__)
    earlier,            \* the calls this object finished before the current one
    (* ---- page fitting as a pure function ---- *)
    fit_in,             \* <<page size name, image width, image height>>
    fit_out,            \* <<new_width, new_height>> or <<>> before the call
    (* ---- ImageHandler.is_valid_image ---- *)
    os_name,            \* "posix" or "nt": which os.path is in use
    file_path,          \* argument: sequence of characters
    valid_result,       \* "pending", "True" or "False"
    (* ---- PluginManager ---- *)
    disk,               \* plugin directories: dir -> what the folder holds
    plugin_metadata,    \* self.plugin_metadata: sequence of [name, dir] in dict order
    plugins,            \* self.plugins: name -> instance
    sys_path,           \* sys.path entries added by load_plugin
    sys_modules,        \* sys.modules: module name -> dir it was imported from
    next_id,            \* identity of the next object created
    hooks,              \* self.hooks: hook name -> list of callbacks
    last_call,          \* the manager call just made: arguments, effects, result
    (* ---- transform steps: cli_enhanced.main, batch_process_folder ---- *)
    tr_pc,              \* position inside main / batch_process_folder
    tr_images,          \* main: image_paths; batch: os.listdir(input_folder)
    operations,         \* the steps requested, in the order they are applied
    tr_i,               \* how many entries of tr_images the loop has handled
    processed_paths,    \* main: processed_paths; batch: processed_files
    image_files,        \* image files on disk: path -> content
    tr_log,             \* what the logger was given
    (* ---- threads that use get_plugin_manager() ---- *)
    g_plugin_manager,   \* the module global _plugin_manager: "None" or a manager
    manager_plugins,    \* per PluginManager created: the instance in self.plugins
    th,                 \* per thread: position, manager obtained, plugin in hand
    (* ---- cli.main / cli_enhanced.main: validation of the arguments ---- *)
    cli_pc,             \* position inside main
    cli_args,           \* args.images: the paths given on the command line
    cli_i,              \* how many of them the loop of validate_images has seen
    valid_images        \* validate_images' local list

conv_vars == <<pc, image_paths, page_size, compress, compression_quality,
               callback, prepared_paths, temp_dir, out_file, out_before,
               packaged, progress_values, exc, alive, earlier>>
fit_vars == <<fit_in, fit_out>>
valid_vars == <<os_name, file_path, valid_result>>
plugin_vars == <<disk, plugin_metadata, plugins, sys_path, sys_modules,
                 next_id, hooks, last_call>>
transform_vars == <<tr_pc, tr_images, operations, tr_i, processed_paths,
                    image_files, tr_log>>
thread_vars == <<g_plugin_manager, manager_plugins, th>>
cli_vars == <<cli_pc, cli_args, cli_i, valid_images>>
vars == <<conv_vars, fit_vars, valid_vars, plugin_vars, transform_vars, thread_vars, cli_vars>>

(***************************************************************************)
(* Bounds                                                                  *)
(***************************************************************************)
MaxImages == 2          \* longest image list passed to one convert call
MaxDim == 10            \* image widths and heights 1..MaxDim, plus ExtraDims
MaxStemLen == 2         \* characters in front of the extension of a test path
MaxInstances == 3       \* plugin objects created in one run of the manager

\* Larger sizes that exercise the extreme aspect ratios and the page sizes.
ExtraDims == {50, 100, 595, 596, 842, 843, 2000, 5000}
Dims == (1..MaxDim) \cup ExtraDims

(***************************************************************************)
(* PDFConverter                                                            *)
(***************************************************************************)
PAGE_SIZES ==
    [A4 |-> <<595, 842>>, LETTER |-> <<612, 792>>,
     LEGAL |-> <<612, 1008>>, TABLOID |-> <<792, 1224>>]

PageSizeNames == {"A4", "LETTER", "LEGAL", "TABLOID"}
PageSizeArgs == PageSizeNames \cup {"FIT"}

\* Inputs on which the double-precision evaluation of
\*   int(pdf_width / (img_width / img_height))     (wider branch)
\*   int(pdf_height * (img_width / img_height))    (taller branch)
\* lands just below the exact integer quotient and truncates to one less.
\* Enumerated for widths and heights in (1..11) \cup ExtraDims; on every
\* other input of that range the result is the floor of the exact quotient,
\* and the comparison img_ratio > page_ratio agrees with the exact one.
FloatTruncatesLow ==
    {<<"A4", 7, 3>>, <<"A4", 7, 6>>, <<"LETTER", 3, 11>>, <<"LETTER", 6, 11>>,
     <<"LETTER", 9, 7>>, <<"LEGAL", 9, 7>>, <<"TABLOID", 9, 11>>,
     <<"TABLOID", 11, 5>>, <<"TABLOID", 11, 10>>}

\* int(x) of the float whose exact value is num / den
FloatInt(page, w, h, num, den) ==
    IF <<page, w, h>> \in FloatTruncatesLow THEN (num \div den) - 1
    ELSE num \div den

\* variant: the comparison of the two ratios is inverted
FitSize_Inverted(page, img_width, img_height) ==
    LET pdf_width == PAGE_SIZES[page][1]
        pdf_height == PAGE_SIZES[page][2]
    IN  IF img_width * pdf_height < pdf_width * img_height
        THEN <<pdf_width,
               FloatInt(page, img_width, img_height, pdf_width * img_height, img_width)>>
        ELSE <<FloatInt(page, img_width, img_height, pdf_height * img_width, img_height),
               pdf_height>>

\* lines 72-85: the size handed to img.resize
FitSize(page, img_width, img_height) ==
    LET pdf_width == PAGE_SIZES[page][1]
        pdf_height == PAGE_SIZES[page][2]
    IN  IF img_width * pdf_height > pdf_width * img_height   \* img_ratio > page_ratio
        THEN <<pdf_width,
               FloatInt(page, img_width, img_height, pdf_width * img_height, img_width)>>
        ELSE <<FloatInt(page, img_width, img_height, pdf_height * img_width, img_height),
               pdf_height>>

\* The source images a call may be given.  id stands for the path; ext is
\* os.path.splitext(path)[1]; openable says whether Image.open succeeds.
ImagePool ==
    { [id |-> 1, ext |-> ".png", openable |-> TRUE,  mode |-> "RGBA", w |-> 100, h |-> 50],
      [id |-> 2, ext |-> ".png", openable |-> TRUE,  mode |-> "RGB",  w |-> 3,   h |-> 7],
      [id |-> 3, ext |-> ".txt", openable |-> FALSE, mode |-> "RGB",  w |-> 1,   h |-> 1],
      [id |-> 4, ext |-> ".png", openable |-> FALSE, mode |-> "RGB",  w |-> 1,   h |-> 1],
      [id |-> 5, ext |-> ".dat", openable |-> TRUE,  mode |-> "P",    w |-> 8,   h |-> 8],
      [id |-> 6, ext |-> ".bmp", openable |-> TRUE,  mode |-> "L",    w |-> 1,   h |-> 2000],
      [id |-> 7, ext |-> ".jpg", openable |-> TRUE,  mode |-> "RGB",  w |-> 7,   h |-> 3],
      [id |-> 8, ext |-> ".tiff", openable |-> TRUE, mode |-> "CMYK", w |-> 5,   h |-> 5],
      [id |-> 9, ext |-> ".png", openable |-> TRUE,  mode |-> "LA",   w |-> 4,   h |-> 6] }

ImageLists == UNION { [1..n -> ImagePool] : n \in 0..MaxImages }

\* compress / compression_quality pairs a caller may pass
CompressArgs == { <<FALSE, 85>>, <<TRUE, 85>>, <<TRUE, 0>>, <<TRUE, 150>> }

CallbackArgs == {"none", "ok", "raises"}

\* extensions for which img.save(temp_path) finds an encoder
SavableExts == {".jpg", ".jpeg", ".png", ".bmp", ".tiff", ".gif"}

NoFile == [state |-> "absent", pages |-> <<>>]
OldFile == [state |-> "old", pages |-> <<>>]
NoExc == [type |-> "none", at |-> "none"]

\* variant: the index is left out of the file name
TempPath_NoIndex(i, file_ext) == [idx |-> 0, ext |-> file_ext]

\* line 59: temp_path = os.path.join(self.temp_dir, f"image_{i}{file_ext}")
TempPath(i, file_ext) == [idx |-> i, ext |-> file_ext]

\* variant: only the RGBA branch, no img.convert('RGB') for the other modes
RgbMode_OnlyRGBA(mode) == IF mode = "RGBA" THEN "RGB" ELSE mode

\* lines 63-68: the mode of img after the RGB conversion
RgbMode(mode) ==
    IF mode = "RGBA" THEN "RGB"            \* pasted on a white RGB background
    ELSE IF mode # "RGB" THEN "RGB"        \* img.convert('RGB')
    ELSE mode

\* line 71: does this page_size argument select a resize?
FixedPage(size) == size # "FIT" /\ size \in DOMAIN PAGE_SIZES

\* variant: 'FIT' is treated as one more fixed page, of A4 size
PreparedSize_FitsToA4(img, size) ==
    FitSize(IF FixedPage(size) THEN size ELSE "A4", img.w, img.h)

\* lines 70-87: the pixel size of the image that is saved
PreparedSize(img, size) ==
    IF FixedPage(size) THEN FitSize(size, img.w, img.h) ELSE <<img.w, img.h>>

\* lines 61-93 for one image: "ok", or the statement that raises
PrepareOutcome(img, size) ==
    IF ~img.openable THEN "open"                          \* Image.open raises
    ELSE IF PreparedSize(img, size)[1] < 1 \/ PreparedSize(img, size)[2] < 1
         THEN "resize"                                    \* img.resize rejects an empty size
    ELSE IF img.ext \notin SavableExts THEN "save"         \* img.save: unknown extension
    ELSE "ok"

\* variant: the quality is brought into 1..100 before img.save
PreparedFile_Clamped(img, size, comp, quality) ==
    [src |-> img.id, mode |-> RgbMode(img.mode),
     w |-> PreparedSize(img, size)[1], h |-> PreparedSize(img, size)[2],
     quality |-> IF ~comp THEN -1
                 ELSE IF quality < 1 THEN 1
                 ELSE IF quality > 100 THEN 100
                 ELSE quality]

\* lines 89-93: the file written at temp_path
PreparedFile(img, size, comp, quality) ==
    [src |-> img.id, mode |-> RgbMode(img.mode),
     w |-> PreparedSize(img, size)[1], h |-> PreparedSize(img, size)[2],
     quality |-> IF comp THEN quality ELSE -1]

\* lines 130-146: the page img2pdf lays out for one prepared file
PdfPage(file, size) ==
    [src |-> file.src, w |-> file.w, h |-> file.h,
     page |-> IF FixedPage(size) THEN PAGE_SIZES[size] ELSE <<file.w, file.h>>]

\* the caller invokes converter.convert_images_to_pdf(...)
CallConvert ==
    /\ pc = "idle"
    /\ alive
    /\ \E paths \in ImageLists, size \in PageSizeArgs,
          cq \in CompressArgs, cb \in CallbackArgs :
          /\ image_paths' = paths
          /\ page_size' = size
          /\ compress' = cq[1]
          /\ compression_quality' = cq[2]
          /\ callback' = cb
    /\ out_before' = out_file
    /\ pc' = "entered"
    /\ UNCHANGED <<prepared_paths, temp_dir, out_file, packaged, progress_values, exc>>
    /\ UNCHANGED <<alive, earlier>>
    /\ UNCHANGED <<fit_vars, valid_vars, plugin_vars, transform_vars, thread_vars, cli_vars>>

\* variant: no check of the list, so an empty list runs the loop zero times
CheckEmpty_Missing ==
    /\ pc = "entered"
    /\ pc' = IF image_paths = <<>> THEN "packaging" ELSE "preparing"
    /\ UNCHANGED <<image_paths, page_size, compress, compression_quality, callback,
                   prepared_paths, temp_dir, out_file, out_before, packaged,
                   progress_values, exc>>
    /\ UNCHANGED <<alive, earlier>>
    /\ UNCHANGED <<fit_vars, valid_vars, plugin_vars, transform_vars, thread_vars, cli_vars>>

\* lines 120-123
CheckEmpty ==
    /\ pc = "entered"
    /\ IF image_paths = <<>>
       THEN /\ exc' = [type |-> "ValueError", at |-> "empty"]
            /\ pc' = "raised"
       ELSE /\ pc' = "preparing"
            /\ exc' = exc
    /\ UNCHANGED <<image_paths, page_size, compress, compression_quality, callback,
                   prepared_paths, temp_dir, out_file, out_before, packaged,
                   progress_values>>
    /\ UNCHANGED <<alive, earlier>>
    /\ UNCHANGED <<fit_vars, valid_vars, plugin_vars, transform_vars, thread_vars, cli_vars>>

\* variant: _prepare_images returns after the first image
PrepareImage_ReturnsAfterFirst ==
    /\ pc = "preparing"
    /\ LET i == Len(prepared_paths)
           img == image_paths[i + 1]
           temp_path == TempPath(i, img.ext)
       IN  IF PrepareOutcome(img, page_size) = "ok"
           THEN /\ temp_dir' = [p \in DOMAIN temp_dir \cup {temp_path} |->
                                  IF p = temp_path
                                  THEN PreparedFile(img, page_size, compress, compression_quality)
                                  ELSE temp_dir[p]]
                /\ prepared_paths' = Append(prepared_paths, temp_path)
                /\ pc' = "packaging"
                /\ exc' = exc
           ELSE /\ exc' = [type |-> "PILError", at |-> PrepareOutcome(img, page_size)]
                /\ pc' = "raised"
                /\ UNCHANGED <<temp_dir, prepared_paths>>
    /\ UNCHANGED <<image_paths, page_size, compress, compression_quality, callback,
                   out_file, out_before, packaged, progress_values>>
    /\ UNCHANGED <<alive, earlier>>
    /\ UNCHANGED <<fit_vars, valid_vars, plugin_vars, transform_vars, thread_vars, cli_vars>>

\* lines 56-97: one iteration of the loop of _prepare_images; an exception of
\* Image.open, img.resize or img.save leaves _prepare_images and the call
PrepareImage ==
    /\ pc = "preparing"
    /\ LET i == Len(prepared_paths)
           img == image_paths[i + 1]
           temp_path == TempPath(i, img.ext)
       IN  IF PrepareOutcome(img, page_size) = "ok"
           THEN /\ temp_dir' = [p \in DOMAIN temp_dir \cup {temp_path} |->
                                  IF p = temp_path
                                  THEN PreparedFile(img, page_size, compress, compression_quality)
                                  ELSE temp_dir[p]]
                /\ prepared_paths' = Append(prepared_paths, temp_path)
                /\ pc' = IF i + 1 = Len(image_paths) THEN "packaging" ELSE "preparing"
                /\ exc' = exc
           ELSE /\ exc' = [type |-> "PILError", at |-> PrepareOutcome(img, page_size)]
                /\ pc' = "raised"
                /\ UNCHANGED <<temp_dir, prepared_paths>>
    /\ UNCHANGED <<image_paths, page_size, compress, compression_quality, callback,
                   out_file, out_before, packaged, progress_values>>
    /\ UNCHANGED <<alive, earlier>>
    /\ UNCHANGED <<fit_vars, valid_vars, plugin_vars, transform_vars, thread_vars, cli_vars>>

\* variant: the file is opened without being created or truncated
OpenOutput_KeepsContent ==
    /\ pc = "packaging"
    /\ \E opened \in BOOLEAN :
          IF opened
          THEN /\ out_file' = out_file
               /\ pc' = "writing"
               /\ exc' = exc
          ELSE /\ exc' = [type |-> "Exception", at |-> "open_output"]
               /\ pc' = "raised"
               /\ out_file' = out_file
    /\ UNCHANGED <<image_paths, page_size, compress, compression_quality, callback,
                   prepared_paths, temp_dir, out_before, packaged, progress_values>>
    /\ UNCHANGED <<alive, earlier>>
    /\ UNCHANGED <<fit_vars, valid_vars, plugin_vars, transform_vars, thread_vars, cli_vars>>

\* lines 138 / 145: open(output_path, "wb") creates or truncates the file
OpenOutput ==
    /\ pc = "packaging"
    /\ \E opened \in BOOLEAN :
          IF opened
          THEN /\ out_file' = [state |-> "empty", pages |-> <<>>]
               /\ pc' = "writing"
               /\ exc' = exc
          ELSE /\ exc' = [type |-> "Exception", at |-> "open_output"]
               /\ pc' = "raised"
               /\ out_file' = out_file
    /\ UNCHANGED <<image_paths, page_size, compress, compression_quality, callback,
                   prepared_paths, temp_dir, out_before, packaged, progress_values>>
    /\ UNCHANGED <<alive, earlier>>
    /\ UNCHANGED <<fit_vars, valid_vars, plugin_vars, transform_vars, thread_vars, cli_vars>>

\* variant: every file found in the temporary directory is packaged
FilesToPackage_WholeTempDir ==
    LET names == DOMAIN temp_dir
        listing == CHOOSE seq \in [1..Cardinality(names) -> names] :
                      \A a, b \in DOMAIN seq : a # b => seq[a] # seq[b]
    IN  [k \in DOMAIN listing |-> temp_dir[listing[k]]]

\* lines 139-142 / 146: img2pdf.convert(prepared_paths, ...) reads the files
\* that this call's _prepare_images returned, in that order
FilesToPackage == [k \in 1..Len(prepared_paths) |-> temp_dir[prepared_paths[k]]]

\* variant: the callback is invoked in a finally clause, also on failure
WritePdf_ReportsAlways ==
    /\ pc = "writing"
    /\ LET files == FilesToPackage
           pdf == [k \in 1..Len(files) |-> PdfPage(files[k], page_size)]
       IN  /\ packaged' = Append(packaged, files)
           /\ \E outcome \in {"ok", "img2pdf", "write"} :
                 CASE outcome = "ok" ->
                        /\ out_file' = [state |-> "pdf", pages |-> pdf]
                        /\ pc' = "reporting"
                        /\ UNCHANGED <<exc, progress_values>>
                   [] outcome = "img2pdf" ->
                        /\ out_file' = out_file
                        /\ exc' = [type |-> "Exception", at |-> "img2pdf"]
                        /\ progress_values' = Append(progress_values, <<1, 1>>)
                        /\ pc' = "raised"
                   [] outcome = "write" ->
                        /\ out_file' = [state |-> "partial", pages |-> <<>>]
                        /\ exc' = [type |-> "Exception", at |-> "write"]
                        /\ progress_values' = Append(progress_values, <<1, 1>>)
                        /\ pc' = "raised"
    /\ UNCHANGED <<image_paths, page_size, compress, compression_quality, callback,
                   prepared_paths, temp_dir, out_before>>
    /\ UNCHANGED <<alive, earlier>>
    /\ UNCHANGED <<fit_vars, valid_vars, plugin_vars, transform_vars, thread_vars, cli_vars>>

\* lines 139-142 / 146: f.write(img2pdf.convert(prepared_paths, ...)) with the
\* file already open; either call may fail, and line 153 re-raises
WritePdf ==
    /\ pc = "writing"
    /\ LET files == FilesToPackage
           pdf == [k \in 1..Len(files) |-> PdfPage(files[k], page_size)]
       IN  /\ packaged' = Append(packaged, files)
           /\ \E outcome \in {"ok", "img2pdf", "write"} :
                 CASE outcome = "ok" ->
                        /\ out_file' = [state |-> "pdf", pages |-> pdf]
                        /\ pc' = "reporting"
                        /\ exc' = exc
                   [] outcome = "img2pdf" ->
                        /\ out_file' = out_file
                        /\ exc' = [type |-> "Exception", at |-> "img2pdf"]
                        /\ pc' = "raised"
                   [] outcome = "write" ->
                        /\ out_file' = [state |-> "partial", pages |-> <<>>]
                        /\ exc' = [type |-> "Exception", at |-> "write"]
                        /\ pc' = "raised"
    /\ UNCHANGED <<image_paths, page_size, compress, compression_quality, callback,
                   prepared_paths, temp_dir, out_before, progress_values>>
    /\ UNCHANGED <<alive, earlier>>
    /\ UNCHANGED <<fit_vars, valid_vars, plugin_vars, transform_vars, thread_vars, cli_vars>>

\* variant: a percentage instead of a fraction
FinalProgress_Percent == <<100, 1>>

\* the value line 150 passes to the callback, as <<numerator, denominator>>
FinalProgress == <<1, 1>>

\* lines 148-155
ReportProgress ==
    /\ pc = "reporting"
    /\ CASE callback = "none" ->
              /\ pc' = "returned"
              /\ UNCHANGED <<progress_values, exc>>
         [] callback = "ok" ->
              /\ progress_values' = Append(progress_values, FinalProgress)
              /\ pc' = "returned"
              /\ exc' = exc
         [] callback = "raises" ->
              /\ progress_values' = Append(progress_values, FinalProgress)
              /\ exc' = [type |-> "Exception", at |-> "callback"]
              /\ pc' = "raised"
    /\ UNCHANGED <<image_paths, page_size, compress, compression_quality, callback,
                   prepared_paths, temp_dir, out_file, out_before, packaged>>
    /\ UNCHANGED <<alive, earlier>>
    /\ UNCHANGED <<fit_vars, valid_vars, plugin_vars, transform_vars, thread_vars, cli_vars>>

\* lines 31-36: __del__ runs when the object is garbage-collected, between
\* calls; shutil.rmtree removes self.temp_dir, or fails with an OSError that
\* is swallowed and leaves the files
Del ==
    /\ alive
    /\ pc \in {"idle", "returned", "raised"}
    /\ alive' = FALSE
    /\ \E removed \in BOOLEAN :
          temp_dir' = IF removed THEN <<>> ELSE temp_dir
    /\ UNCHANGED <<pc, image_paths, page_size, compress, compression_quality, callback,
                   prepared_paths, out_file, out_before, packaged, progress_values,
                   exc, earlier>>
    /\ UNCHANGED <<fit_vars, valid_vars, plugin_vars, transform_vars, thread_vars, cli_vars>>

\* The arguments of the calls made on one object that is called twice.
ReusePool == { img \in ImagePool : img.id \in {1, 3, 7} }
ReuseLists == {<<>>} \cup { <<a>> : a \in ReusePool }
                     \cup { <<a, b>> : a, b \in ReusePool }

\* lines 99-121: convert_images_to_pdf reads no attribute that records an
\* earlier call, so it starts on a fresh object and on one whose earlier call
\* returned or raised alike.  prepared_paths is a local of the new call;
\* self.temp_dir and the file at output_path are what the earlier call left.
CallConvertAgain ==
    /\ alive
    /\ pc \in {"idle", "returned", "raised"}
    /\ earlier = <<>>
    /\ earlier' = IF pc = "idle" THEN earlier
                  ELSE <<[pc |-> pc, image_paths |-> image_paths, temp_dir |-> temp_dir,
                          out_file |-> out_file]>>
    /\ \E paths \in ReuseLists, size \in {"A4", "FIT"}, cb \in {"ok", "raises"} :
          /\ image_paths' = paths
          /\ page_size' = size
          /\ callback' = cb
    /\ compress' = FALSE
    /\ compression_quality' = 85
    /\ out_before' = out_file
    /\ prepared_paths' = <<>>
    /\ packaged' = <<>>
    /\ progress_values' = <<>>
    /\ exc' = NoExc
    /\ pc' = "entered"
    /\ UNCHANGED <<temp_dir, out_file, alive>>
    /\ UNCHANGED <<fit_vars, valid_vars, plugin_vars, transform_vars, thread_vars, cli_vars>>

ConvIdle ==
    /\ pc = "idle"
    /\ image_paths = <<>>
    /\ page_size = "A4"
    /\ compress = FALSE
    /\ compression_quality = 85
    /\ callback = "none"
    /\ prepared_paths = <<>>
    /\ temp_dir = <<>>
    /\ packaged = <<>>
    /\ progress_values = <<>>
    /\ exc = NoExc
    /\ out_before = NoFile
    /\ alive = TRUE
    /\ earlier = <<>>

(***************************************************************************)
(* The page fit as a function of the page size and the image size          *)
(***************************************************************************)
FitIdle ==
    /\ fit_in = <<"A4", 1, 1>>
    /\ fit_out = <<>>

\* lines 72-87 applied to one image size
ApplyFit ==
    /\ fit_out = <<>>
    /\ fit_out' = FitSize(fit_in[1], fit_in[2], fit_in[3])
    /\ UNCHANGED <<fit_in, conv_vars, valid_vars, plugin_vars, transform_vars, thread_vars, cli_vars>>

(***************************************************************************)
(* ImageHandler.is_valid_image                                             *)
(* Paths are sequences of one-character strings.                           *)
(***************************************************************************)
SUPPORTED_FORMATS ==
    { <<".", "j", "p", "g">>, <<".", "j", "p", "e", "g">>, <<".", "p", "n", "g">>,
      <<".", "b", "m", "p">>, <<".", "t", "i", "f", "f">>, <<".", "g", "i", "f">> }

UpperToLower ==
    [B |-> "b", E |-> "e", F |-> "f", G |-> "g", I |-> "i", J |-> "j",
     M |-> "m", N |-> "n", P |-> "p", T |-> "t", X |-> "x"]

\* str.lower()
Lower(str) ==
    [k \in 1..Len(str) |->
        IF str[k] \in DOMAIN UpperToLower THEN UpperToLower[str[k]] ELSE str[k]]

\* the separators of os.path: sep, and altsep where there is one
Seps(os) == IF os = "nt" THEN {"\\", "/"} ELSE {"/"}

\* str.rfind over a set of characters; 0 when none occurs
LastIndexOf(str, chars) ==
    LET hits == {k \in 1..Len(str) : str[k] \in chars}
    IN  IF hits = {} THEN 0 ELSE CHOOSE k \in hits : \A j \in hits : j <= k

\* os.path.splitext(p)[1]: from the last dot of the last component, unless
\* only dots precede it in that component
SplitExt(str, os) ==
    LET sepIndex == LastIndexOf(str, Seps(os))
        dotIndex == LastIndexOf(str, {"."})
    IN  IF /\ dotIndex > sepIndex
           /\ \E k \in (sepIndex + 1)..(dotIndex - 1) : str[k] # "."
        THEN SubSeq(str, dotIndex, Len(str))
        ELSE <<>>

\* variant: the extension is compared as written
is_valid_image_CaseSensitive(str, os) == SplitExt(str, os) \in SUPPORTED_FORMATS

\* lines 29-30
is_valid_image(str, os) == Lower(SplitExt(str, os)) \in SUPPORTED_FORMATS

StemChars == {"a", ".", "/", "\\"}
Stems == UNION { [1..n -> StemChars] : n \in 0..MaxStemLen }

Endings ==
    { <<>>,
      <<".", "j", "p", "g">>, <<".", "J", "P", "G">>, <<".", "j", "p", "e", "g">>,
      <<".", "J", "p", "E", "g">>, <<".", "p", "n", "g">>, <<".", "P", "N", "G">>,
      <<".", "b", "m", "p">>, <<".", "t", "i", "f", "f">>, <<".", "T", "I", "F", "F">>,
      <<".", "g", "i", "f">>, <<".", "G", "i", "f">>,
      <<".", "p", "d", "f">>, <<".", "t", "x", "t">>, <<".", "t", "i", "f">>,
      <<".", "j", "p", "e">>, <<".", "p", "n", "g", "x">>, <<"p", "n", "g">>,
      <<".", "p", "n", "g", "/">>, <<".", "g", "i", "f", "\\">>,
      <<".", "p", "n", "g", ".", "t", "x", "t">>, <<".", "t", "x", "t", ".", "p", "n", "g">>,
      <<".", "j", "p", "g", ".">>, <<".", "b", "m", "p", "/", "a">>,
      <<".", "b", "m", "p", "\\", "a">> }

TestPaths == { stem \o ending : stem \in Stems, ending \in Endings }

ValidIdle ==
    /\ os_name = "posix"
    /\ file_path = <<>>
    /\ valid_result = "pending"

\* ImageHandler.is_valid_image(file_path)
IsValidImageCall ==
    /\ valid_result = "pending"
    /\ valid_result' = IF is_valid_image(file_path, os_name) THEN "True" ELSE "False"
    /\ UNCHANGED <<os_name, file_path, conv_vars, fit_vars, plugin_vars, transform_vars, thread_vars, cli_vars>>

(***************************************************************************)
(* PluginManager                                                           *)
(***************************************************************************)
\* The plugin folders of the plugin directory.  A folder holds a manifest
\* (main_module, plugin_class, enabled) and, when has_file, the file of its
\* main module, which defines one class: its name (defines), whether it
\* derives from PluginInterface, and what initialize() and cleanup() do.
\* The manifest's name is the folder's.
PluginDirs == {"alpha", "beta"}

PluginKinds ==
    { [main_module |-> "main", plugin_class |-> "Plugin", enabled |-> TRUE, has_file |-> TRUE,
       defines |-> "Plugin", is_plugin |-> TRUE, init |-> "True", cleanup |-> "True"],
      [main_module |-> "main", plugin_class |-> "Plugin", enabled |-> TRUE, has_file |-> TRUE,
       defines |-> "Plugin", is_plugin |-> TRUE, init |-> "False", cleanup |-> "True"],
      [main_module |-> "effects", plugin_class |-> "Effects", enabled |-> TRUE, has_file |-> TRUE,
       defines |-> "Effects", is_plugin |-> TRUE, init |-> "True", cleanup |-> "raise"],
      [main_module |-> "effects", plugin_class |-> "Effects", enabled |-> TRUE, has_file |-> TRUE,
       defines |-> "Effects", is_plugin |-> TRUE, init |-> "raise", cleanup |-> "True"],
      [main_module |-> "tools", plugin_class |-> "Tools", enabled |-> TRUE, has_file |-> TRUE,
       defines |-> "Tools", is_plugin |-> TRUE, init |-> "True", cleanup |-> "False"],
      [main_module |-> "tools", plugin_class |-> "Tools", enabled |-> FALSE, has_file |-> TRUE,
       defines |-> "Tools", is_plugin |-> TRUE, init |-> "True", cleanup |-> "True"],
      [main_module |-> "missing", plugin_class |-> "Plugin", enabled |-> TRUE, has_file |-> FALSE,
       defines |-> "Plugin", is_plugin |-> TRUE, init |-> "True", cleanup |-> "True"],
      [main_module |-> "other", plugin_class |-> "Plugin", enabled |-> TRUE, has_file |-> TRUE,
       defines |-> "Helper", is_plugin |-> TRUE, init |-> "True", cleanup |-> "True"],
      [main_module |-> "plain", plugin_class |-> "Plugin", enabled |-> TRUE, has_file |-> TRUE,
       defines |-> "Plugin", is_plugin |-> FALSE, init |-> "True", cleanup |-> "True"] }

\* the part of the manager that load and unload read and write
ManagerState ==
    [plugins |-> plugins, sys_path |-> sys_path, sys_modules |-> sys_modules,
     next_id |-> next_id, inits |-> <<>>, cleanups |-> <<>>, events |-> <<>>]

InSeq(seq, x) == \E k \in 1..Len(seq) : seq[k] = x

\* the orders os.listdir may return the folders in
ListDirOrders ==
    { order \in [1..Cardinality(PluginDirs) -> PluginDirs] :
        \A a, b \in DOMAIN order : a # b => order[a] # order[b] }

\* lines 188-208: self.plugin_metadata[metadata.name] = metadata for every
\* folder; a dict keeps a known key in place and appends a new one
RECURSIVE DiscoverFrom(_, _, _)
DiscoverFrom(meta, order, k) ==
    IF k > Len(order) THEN meta
    ELSE DiscoverFrom(IF InSeq(meta, order[k]) THEN meta ELSE Append(meta, order[k]),
                      order, k + 1)

\* importlib.import_module(name) with search path `path`: the folder whose
\* file becomes (or already is) the module, or "" for ImportError
RECURSIVE FindModule(_, _, _)
FindModule(path, name, k) ==
    IF k > Len(path) THEN ""
    ELSE IF disk[path[k]].has_file /\ disk[path[k]].main_module = name THEN path[k]
    ELSE FindModule(path, name, k + 1)

ImportModule(modules, path, name) ==
    IF name \in DOMAIN modules THEN modules[name] ELSE FindModule(path, name, 1)

\* variant: the enabled flag of the metadata is not looked at
load_plugin_IgnoresEnabled(ms, meta, plugin_name) ==
    IF plugin_name \in DOMAIN ms.plugins THEN [ms |-> ms, ret |-> TRUE]
    ELSE IF ~InSeq(meta, plugin_name) THEN [ms |-> ms, ret |-> FALSE]
    ELSE
      LET metadata == disk[plugin_name]
          path == IF InSeq(ms.sys_path, plugin_name) THEN ms.sys_path
                  ELSE <<plugin_name>> \o ms.sys_path
          module == ImportModule(ms.sys_modules, path, metadata.main_module)
          ms1 == [ms EXCEPT !.sys_path = path]
      IN  IF module = "" THEN [ms |-> ms1, ret |-> FALSE]              \* ImportError
          ELSE
            LET ms2 == [ms1 EXCEPT !.sys_modules =
                          [n \in DOMAIN ms.sys_modules \cup {metadata.main_module} |->
                             IF n = metadata.main_module THEN module ELSE ms.sys_modules[n]]]
                instance == [id |-> ms.next_id, cls |-> module]
                ms3 == [ms2 EXCEPT !.next_id = ms.next_id + 1,
                                   !.inits = Append(ms.inits, instance),
                                   !.events = Append(ms.events, <<"initialize", instance>>)]
            IN  IF disk[module].defines # metadata.plugin_class
                THEN [ms |-> ms2, ret |-> FALSE]                         \* AttributeError
                ELSE IF ~disk[module].is_plugin
                THEN [ms |-> ms2, ret |-> FALSE]                         \* ValueError
                ELSE IF disk[module].init # "True"
                THEN [ms |-> ms3, ret |-> FALSE]                         \* RuntimeError, or raised
                ELSE [ms |-> [ms3 EXCEPT !.plugins =
                                [n \in DOMAIN ms.plugins \cup {plugin_name} |->
                                   IF n = plugin_name THEN instance ELSE ms.plugins[n]]],
                      ret |-> TRUE]

\* lines 220-264
load_plugin(ms, meta, plugin_name) ==
    IF plugin_name \in DOMAIN ms.plugins THEN [ms |-> ms, ret |-> TRUE]
    ELSE IF ~InSeq(meta, plugin_name) THEN [ms |-> ms, ret |-> FALSE]
    ELSE IF ~disk[plugin_name].enabled THEN [ms |-> ms, ret |-> FALSE]
    ELSE
      LET metadata == disk[plugin_name]
          path == IF InSeq(ms.sys_path, plugin_name) THEN ms.sys_path
                  ELSE <<plugin_name>> \o ms.sys_path
          module == ImportModule(ms.sys_modules, path, metadata.main_module)
          ms1 == [ms EXCEPT !.sys_path = path]
      IN  IF module = "" THEN [ms |-> ms1, ret |-> FALSE]              \* ImportError
          ELSE
            LET ms2 == [ms1 EXCEPT !.sys_modules =
                          [n \in DOMAIN ms.sys_modules \cup {metadata.main_module} |->
                             IF n = metadata.main_module THEN module ELSE ms.sys_modules[n]]]
                instance == [id |-> ms.next_id, cls |-> module]
                ms3 == [ms2 EXCEPT !.next_id = ms.next_id + 1,
                                   !.inits = Append(ms.inits, instance),
                                   !.events = Append(ms.events, <<"initialize", instance>>)]
            IN  IF disk[module].defines # metadata.plugin_class
                THEN [ms |-> ms2, ret |-> FALSE]                         \* AttributeError
                ELSE IF ~disk[module].is_plugin
                THEN [ms |-> ms2, ret |-> FALSE]                         \* ValueError
                ELSE IF disk[module].init # "True"
                THEN [ms |-> ms3, ret |-> FALSE]                         \* RuntimeError, or raised
                ELSE [ms |-> [ms3 EXCEPT !.plugins =
                                [n \in DOMAIN ms.plugins \cup {plugin_name} |->
                                   IF n = plugin_name THEN instance ELSE ms.plugins[n]]],
                      ret |-> TRUE]

\* variant: the instance is removed before cleanup() is called
unload_plugin_RemovesFirst(ms, plugin_name) ==
    IF plugin_name \notin DOMAIN ms.plugins THEN [ms |-> ms, ret |-> TRUE]
    ELSE
      LET plugin == ms.plugins[plugin_name]
          ms1 == [ms EXCEPT !.cleanups = Append(ms.cleanups, plugin),
                            !.events = Append(ms.events, <<"cleanup", plugin>>),
                            !.plugins = [n \in DOMAIN ms.plugins \ {plugin_name} |->
                                           ms.plugins[n]]]
      IN  [ms |-> ms1, ret |-> disk[plugin.cls].cleanup # "raise"]

\* variant: unloading a plugin that is not loaded is reported as a failure
unload_plugin_NotLoadedFails(ms, plugin_name) ==
    IF plugin_name \notin DOMAIN ms.plugins THEN [ms |-> ms, ret |-> FALSE]
    ELSE
      LET plugin == ms.plugins[plugin_name]
          ms1 == [ms EXCEPT !.cleanups = Append(ms.cleanups, plugin),
                            !.events = Append(ms.events, <<"cleanup", plugin>>)]
      IN  IF disk[plugin.cls].cleanup = "raise"
          THEN [ms |-> ms1, ret |-> FALSE]
          ELSE [ms |-> [ms1 EXCEPT !.plugins =
                          [n \in DOMAIN ms.plugins \ {plugin_name} |-> ms.plugins[n]]],
                ret |-> TRUE]

\* lines 276-294
unload_plugin(ms, plugin_name) ==
    IF plugin_name \notin DOMAIN ms.plugins THEN [ms |-> ms, ret |-> TRUE]
    ELSE
      LET plugin == ms.plugins[plugin_name]
          ms1 == [ms EXCEPT !.cleanups = Append(ms.cleanups, plugin),
                            !.events = Append(ms.events, <<"cleanup", plugin>>)]
      IN  IF disk[plugin.cls].cleanup = "raise"
          THEN [ms |-> ms1, ret |-> FALSE]
          ELSE [ms |-> [ms1 EXCEPT !.plugins =
                          [n \in DOMAIN ms.plugins \ {plugin_name} |-> ms.plugins[n]]],
                ret |-> TRUE]

\* variant: the result of the unload is not looked at
reload_plugin_IgnoresUnloadResult(ms, meta, plugin_name) ==
    load_plugin(unload_plugin(ms, plugin_name).ms, meta, plugin_name)

\* lines 306-308
reload_plugin(ms, meta, plugin_name) ==
    LET unloaded == unload_plugin(ms, plugin_name)
    IN  IF ~unloaded.ret THEN [ms |-> unloaded.ms, ret |-> FALSE]
        ELSE load_plugin(unloaded.ms, meta, plugin_name)

\* lines 318-323: the loop over self.plugin_metadata
RECURSIVE LoadEach(_, _, _, _)
LoadEach(ms, meta, k, results) ==
    IF k > Len(meta) THEN [ms |-> ms, results |-> results]
    ELSE LET loaded == load_plugin(ms, meta, meta[k])
         IN  LoadEach(loaded.ms, meta, k + 1,
                      [n \in DOMAIN results \cup {meta[k]} |->
                         IF n = meta[k] THEN loaded.ret ELSE results[n]])

NoCall ==
    [op |-> "none", arg |-> "", cb |-> "", ret |-> "none", inits |-> <<>>,
     cleanups |-> <<>>, events |-> <<>>, called |-> <<>>, results |-> <<>>,
     before |-> <<>>]

BoolStr(b) == IF b THEN "True" ELSE "False"

\* the manager's fields after a call that ended in state ms
Becomes(ms) ==
    /\ plugins' = ms.plugins
    /\ sys_path' = ms.sys_path
    /\ sys_modules' = ms.sys_modules
    /\ next_id' = ms.next_id

CallRecord(op, arg, ret, ms, results) ==
    [op |-> op, arg |-> arg, cb |-> "", ret |-> ret, inits |-> ms.inits,
     cleanups |-> ms.cleanups, events |-> ms.events, called |-> <<>>,
     results |-> results, before |-> plugins]

PluginsIdle ==
    /\ disk = <<>>
    /\ plugin_metadata = <<>>
    /\ plugins = <<>>
    /\ sys_path = <<>>
    /\ sys_modules = <<>>
    /\ next_id = 1
    /\ hooks = <<>>
    /\ last_call = NoCall

\* manager.discover_plugins()
DiscoverPlugins ==
    /\ \E order \in ListDirOrders :
          plugin_metadata' = DiscoverFrom(plugin_metadata, order, 1)
    /\ last_call' = CallRecord("discover_plugins", "", "list", ManagerState, <<>>)
    /\ UNCHANGED <<disk, plugins, sys_path, sys_modules, next_id, hooks>>
    /\ UNCHANGED <<conv_vars, fit_vars, valid_vars, transform_vars, thread_vars, cli_vars>>

\* manager.load_plugin(name)
LoadPlugin ==
    /\ next_id <= MaxInstances
    /\ \E name \in PluginDirs :
          LET call == load_plugin(ManagerState, plugin_metadata, name)
          IN  /\ Becomes(call.ms)
              /\ last_call' = CallRecord("load_plugin", name, BoolStr(call.ret), call.ms, <<>>)
    /\ UNCHANGED <<disk, plugin_metadata, hooks>>
    /\ UNCHANGED <<conv_vars, fit_vars, valid_vars, transform_vars, thread_vars, cli_vars>>

\* manager.unload_plugin(name)
UnloadPlugin ==
    /\ \E name \in PluginDirs :
          LET call == unload_plugin(ManagerState, name)
          IN  /\ Becomes(call.ms)
              /\ last_call' = CallRecord("unload_plugin", name, BoolStr(call.ret), call.ms, <<>>)
    /\ UNCHANGED <<disk, plugin_metadata, hooks>>
    /\ UNCHANGED <<conv_vars, fit_vars, valid_vars, transform_vars, thread_vars, cli_vars>>

\* manager.reload_plugin(name)
ReloadPlugin ==
    /\ next_id <= MaxInstances
    /\ \E name \in PluginDirs :
          LET call == reload_plugin(ManagerState, plugin_metadata, name)
          IN  /\ Becomes(call.ms)
              /\ last_call' = CallRecord("reload_plugin", name, BoolStr(call.ret), call.ms, <<>>)
    /\ UNCHANGED <<disk, plugin_metadata, hooks>>
    /\ UNCHANGED <<conv_vars, fit_vars, valid_vars, transform_vars, thread_vars, cli_vars>>

\* manager.load_all_plugins(): lines 317-323
LoadAllPlugins ==
    /\ next_id <= MaxInstances
    /\ \E order \in ListDirOrders :
          LET meta == DiscoverFrom(plugin_metadata, order, 1)
              call == LoadEach(ManagerState, meta, 1, <<>>)
          IN  /\ plugin_metadata' = meta
              /\ Becomes(call.ms)
              /\ last_call' = CallRecord("load_all_plugins", "", "dict", call.ms, call.results)
    /\ UNCHANGED <<disk, hooks>>
    /\ UNCHANGED <<conv_vars, fit_vars, valid_vars, transform_vars, thread_vars, cli_vars>>

(***************************************************************************)
(* Hooks                                                                   *)
(***************************************************************************)
HookNames == {"before_convert", "after_convert"}

\* The callables a client may register: what each does when it is called.
CallbackPool ==
    [log_start |-> [raises |-> FALSE, value |-> "started"],
     broken    |-> [raises |-> TRUE,  value |-> "none"],
     count     |-> [raises |-> FALSE, value |-> "counted"]]

Callbacks == DOMAIN CallbackPool

\* list.remove(x): drops the first occurrence
RemoveFirst(seq, x) ==
    LET k == CHOOSE j \in 1..Len(seq) : seq[j] = x /\ \A m \in 1..(j - 1) : seq[m] # x
    IN  SubSeq(seq, 1, k - 1) \o SubSeq(seq, k + 1, Len(seq))

\* variant: the callback is appended whether or not it is in the list
register_hook_AppendsAlways(hks, hook_name, cb) ==
    LET present == IF hook_name \in DOMAIN hks THEN hks[hook_name] ELSE <<>>
    IN  [hooks |-> [n \in DOMAIN hks \cup {hook_name} |->
                      IF n = hook_name THEN Append(present, cb) ELSE hks[n]],
         ret |-> TRUE]

\* lines 361-368
register_hook(hks, hook_name, cb) ==
    LET present == IF hook_name \in DOMAIN hks THEN hks[hook_name] ELSE <<>>
        added == ~InSeq(present, cb)
    IN  [hooks |-> [n \in DOMAIN hks \cup {hook_name} |->
                      IF n = hook_name
                      THEN (IF added THEN Append(present, cb) ELSE present)
                      ELSE hks[n]],
         ret |-> added]

\* lines 381-385
unregister_hook(hks, hook_name, cb) ==
    IF hook_name \in DOMAIN hks /\ InSeq(hks[hook_name], cb)
    THEN [hooks |-> [hks EXCEPT ![hook_name] = RemoveFirst(hks[hook_name], cb)], ret |-> TRUE]
    ELSE [hooks |-> hks, ret |-> FALSE]

\* variant: the try statement encloses the loop, so the first exception ends it
RECURSIVE RunCallbacks_TryAroundLoop(_, _, _, _)
RunCallbacks_TryAroundLoop(cbs, k, called, results) ==
    IF k > Len(cbs) THEN [called |-> called, results |-> results, escaped |-> FALSE]
    ELSE IF CallbackPool[cbs[k]].raises
         THEN [called |-> Append(called, cbs[k]), results |-> results, escaped |-> FALSE]
         ELSE RunCallbacks_TryAroundLoop(cbs, k + 1, Append(called, cbs[k]),
                                         Append(results, CallbackPool[cbs[k]].value))

\* lines 402-407: the loop; an exception of one callback is caught inside it
RECURSIVE RunCallbacks(_, _, _, _)
RunCallbacks(cbs, k, called, results) ==
    IF k > Len(cbs) THEN [called |-> called, results |-> results, escaped |-> FALSE]
    ELSE IF CallbackPool[cbs[k]].raises
         THEN RunCallbacks(cbs, k + 1, Append(called, cbs[k]), results)
         ELSE RunCallbacks(cbs, k + 1, Append(called, cbs[k]),
                           Append(results, CallbackPool[cbs[k]].value))

\* lines 399-409
execute_hook(hks, hook_name) ==
    IF hook_name \in DOMAIN hks
    THEN RunCallbacks(hks[hook_name], 1, <<>>, <<>>)
    ELSE [called |-> <<>>, results |-> <<>>, escaped |-> FALSE]

HookRecord(op, hook_name, cb, ret, called, results) ==
    [op |-> op, arg |-> hook_name, cb |-> cb, ret |-> ret, inits |-> <<>>,
     cleanups |-> <<>>, events |-> <<>>, called |-> called, results |-> results,
     before |-> hooks]

\* manager.register_hook(hook_name, callback)
RegisterHook ==
    /\ \E hook_name \in HookNames, cb \in Callbacks :
          LET call == register_hook(hooks, hook_name, cb)
          IN  /\ hooks' = call.hooks
              /\ last_call' = HookRecord("register_hook", hook_name, cb,
                                         BoolStr(call.ret), <<>>, <<>>)
    /\ UNCHANGED <<disk, plugin_metadata, plugins, sys_path, sys_modules, next_id>>
    /\ UNCHANGED <<conv_vars, fit_vars, valid_vars, transform_vars, thread_vars, cli_vars>>

\* manager.unregister_hook(hook_name, callback)
UnregisterHook ==
    /\ \E hook_name \in HookNames, cb \in Callbacks :
          LET call == unregister_hook(hooks, hook_name, cb)
          IN  /\ hooks' = call.hooks
              /\ last_call' = HookRecord("unregister_hook", hook_name, cb,
                                         BoolStr(call.ret), <<>>, <<>>)
    /\ UNCHANGED <<disk, plugin_metadata, plugins, sys_path, sys_modules, next_id>>
    /\ UNCHANGED <<conv_vars, fit_vars, valid_vars, transform_vars, thread_vars, cli_vars>>

\* manager.execute_hook(hook_name)
ExecuteHook ==
    /\ \E hook_name \in HookNames :
          LET call == execute_hook(hooks, hook_name)
          IN  last_call' = HookRecord("execute_hook", hook_name, "",
                                     IF call.escaped THEN "raised" ELSE "list",
                                     call.called, call.results)
    /\ UNCHANGED <<disk, plugin_metadata, plugins, sys_path, sys_modules, next_id, hooks>>
    /\ UNCHANGED <<conv_vars, fit_vars, valid_vars, transform_vars, thread_vars, cli_vars>>

(***************************************************************************)
(* The transform steps: cli_enhanced.main (lines 268-300) and              *)
(* AdvancedImageProcessor.batch_process_folder                             *)
(***************************************************************************)
StepNames == {"auto_rotate", "enhance", "watermark", "optimize_for_pdf"}

\* The files a run may meet.  stem and ext are os.path.splitext of the file
\* name, stem as a list of name parts; fails holds the steps inside which PIL
\* raises for this image (all of them for a file that is no image);
\* readable says whether the bytes of the file can be read at all.
SourcePool ==
    { [id |-> 1, stem |-> <<"a">>, ext |-> ".png", fails |-> {}, readable |-> TRUE],
      [id |-> 2, stem |-> <<"a", "_rotated">>, ext |-> ".png", fails |-> {}, readable |-> TRUE],
      [id |-> 3, stem |-> <<"b">>, ext |-> ".jpg", fails |-> {"auto_rotate"}, readable |-> TRUE],
      [id |-> 4, stem |-> <<"c">>, ext |-> ".jpg", fails |-> {"enhance"}, readable |-> TRUE],
      [id |-> 5, stem |-> <<"d">>, ext |-> ".png", fails |-> {"watermark"}, readable |-> TRUE],
      [id |-> 6, stem |-> <<"e">>, ext |-> ".jpg", fails |-> StepNames, readable |-> TRUE],
      [id |-> 7, stem |-> <<"f">>, ext |-> ".jpg", fails |-> StepNames, readable |-> FALSE],
      [id |-> 8, stem |-> <<"n">>, ext |-> ".txt", fails |-> StepNames, readable |-> TRUE],
      [id |-> 9, stem |-> <<"a">>, ext |-> ".jpg", fails |-> {}, readable |-> TRUE] }

Source(id) == CHOOSE img \in SourcePool : img.id = id

\* advanced_processor.py line 295
image_extensions == {".jpg", ".jpeg", ".png", ".bmp", ".tiff", ".gif"}

\* what validate_and_filter_images lets through: existing files with an
\* image extension
MainImages == { img \in SourcePool : img.ext \in image_extensions }

NoPath == [dir |-> "", stem |-> <<>>, ext |-> ""]
InputPath(img) == [dir |-> "in", stem |-> img.stem, ext |-> img.ext]
OutputPath(img) == [dir |-> "out", stem |-> img.stem, ext |-> img.ext]

StepSuffix ==
    [auto_rotate |-> "_rotated", enhance |-> "_enhanced",
     watermark |-> "_watermarked", optimize_for_pdf |-> "_optimized"]

\* lines 34-36, 81-82, 153-155, 247-249: name, ext = os.path.splitext(image_path)
DefaultOutput(op, image_path) ==
    [image_path EXCEPT !.stem = Append(@, StepSuffix[op]),
                       !.ext = IF op = "optimize_for_pdf" THEN ".jpg" ELSE @]

WriteFile(fs, path, content) ==
    [q \in DOMAIN fs \cup {path} |-> IF q = path THEN content ELSE fs[q]]

\* variant: a failing auto_rotate_image returns output_path without copying
RunStep_NoFallbackCopy(op, fs, image_path, output_arg) ==
    LET output_path == IF output_arg = NoPath THEN DefaultOutput(op, image_path)
                       ELSE output_arg
        content == fs[image_path]
        warning == <<"warning", op, content.src>>
    IN  IF op \notin Source(content.src).fails
        THEN [fs |-> WriteFile(fs, output_path, [content EXCEPT !.applied = Append(@, op)]),
              path |-> output_path, raised |-> FALSE, log |-> <<>>]
        ELSE IF op # "auto_rotate"
        THEN [fs |-> fs, path |-> image_path, raised |-> TRUE, log |-> <<>>]
        ELSE [fs |-> fs, path |-> output_path, raised |-> FALSE, log |-> <<warning>>]

\* One step on the file at image_path.  auto_rotate_image (lines 38-60)
\* catches what PIL raises, logs a warning and copies the original to
\* output_path, and the copy raises when the file cannot be read;
\* enhance_image, add_text_watermark and optimize_for_pdf have no try.
RunStep(op, fs, image_path, output_arg) ==
    LET output_path == IF output_arg = NoPath THEN DefaultOutput(op, image_path)
                       ELSE output_arg
        content == fs[image_path]
        warning == <<"warning", op, content.src>>
    IN  IF op \notin Source(content.src).fails
        THEN [fs |-> WriteFile(fs, output_path, [content EXCEPT !.applied = Append(@, op)]),
              path |-> output_path, raised |-> FALSE, log |-> <<>>]
        ELSE IF op # "auto_rotate"
        THEN [fs |-> fs, path |-> image_path, raised |-> TRUE, log |-> <<>>]
        ELSE IF output_path = image_path
        THEN [fs |-> fs, path |-> output_path, raised |-> FALSE, log |-> <<warning>>]
        ELSE IF Source(content.src).readable
        THEN [fs |-> WriteFile(fs, output_path, content),
              path |-> output_path, raised |-> FALSE, log |-> <<warning>>]
        ELSE [fs |-> fs, path |-> image_path, raised |-> TRUE, log |-> <<warning>>]

\* the steps of one image, one after the other, until one raises
RECURSIVE RunOps(_, _, _, _, _, _)
RunOps(ops, k, fs, path, output_arg, log) ==
    IF k > Len(ops)
    THEN [fs |-> fs, path |-> path, log |-> log, raised |-> FALSE, at |-> "none"]
    ELSE LET step == RunStep(ops[k], fs, path, output_arg)
         IN  IF step.raised
             THEN [fs |-> step.fs, path |-> path, log |-> log \o step.log,
                   raised |-> TRUE, at |-> ops[k]]
             ELSE RunOps(ops, k + 1, step.fs, step.path, output_arg, log \o step.log)

\* cli_enhanced.py lines 282-293: the steps the flags select, in this order
MainOperations ==
    { SelectSeq(<<"auto_rotate", "enhance", "watermark">>, LAMBDA op : op \in chosen) :
        chosen \in SUBSET {"auto_rotate", "enhance", "watermark"} }

\* operations lists given to batch_process_folder; the first is the default
BatchOperations ==
    { <<"auto_rotate", "optimize_for_pdf">>, <<"enhance">>, <<"optimize_for_pdf">>,
      <<"auto_rotate", "enhance">>, <<"enhance", "auto_rotate">> }

SourceFiles(images) ==
    [q \in { InputPath(images[k]) : k \in DOMAIN images } |->
       [src |-> (CHOOSE img \in SourcePool : InputPath(img) = q).id, applied |-> <<>>]]

TransformIdle ==
    /\ tr_pc = "idle"
    /\ tr_images = <<>>
    /\ operations = <<>>
    /\ tr_i = 0
    /\ processed_paths = <<>>
    /\ image_files = <<>>
    /\ tr_log = <<>>

\* cli_enhanced.main up to line 270, with the validated image list
CallMain ==
    /\ tr_pc = "idle"
    /\ \E images \in UNION { [1..n -> MainImages] : n \in 1..MaxImages },
          ops \in MainOperations :
          /\ tr_images' = images
          /\ operations' = ops
          /\ image_files' = SourceFiles(images)
          /\ tr_pc' = IF ops = <<>> THEN "converting" ELSE "processing"
    /\ UNCHANGED <<tr_i, processed_paths, tr_log>>
    /\ UNCHANGED <<conv_vars, fit_vars, valid_vars, plugin_vars, thread_vars, cli_vars>>

\* lines 277-300: one iteration of the loop over image_paths.  An exception
\* of a step reaches the except clause of main (lines 348-353): sys.exit(1).
TransformImage ==
    /\ tr_pc = "processing"
    /\ LET img == tr_images[tr_i + 1]
           run == RunOps(operations, 1, image_files, InputPath(img), NoPath, <<>>)
       IN  /\ image_files' = run.fs
           /\ tr_log' = tr_log \o run.log
           /\ IF run.raised
              THEN /\ tr_pc' = "exit1"
                   /\ UNCHANGED <<tr_i, processed_paths>>
              ELSE /\ processed_paths' = Append(processed_paths, run.path)
                   /\ tr_i' = tr_i + 1
                   /\ tr_pc' = IF tr_i + 1 = Len(tr_images) THEN "converting"
                               ELSE "processing"
    /\ UNCHANGED <<tr_images, operations>>
    /\ UNCHANGED <<conv_vars, fit_vars, valid_vars, plugin_vars, thread_vars, cli_vars>>

\* batch_process_folder, lines 286-296: the folder's entries in listdir order
CallBatch ==
    /\ tr_pc = "idle"
    /\ \E images \in UNION { [1..n -> SourcePool] : n \in 0..MaxImages },
          ops \in BatchOperations :
          /\ \A a, b \in DOMAIN images : a # b => images[a] # images[b]
          /\ tr_images' = images
          /\ operations' = ops
          /\ image_files' = SourceFiles(images)
          /\ tr_pc' = IF images = <<>> THEN "batch_done" ELSE "batch"
    /\ UNCHANGED <<tr_i, processed_paths, tr_log>>
    /\ UNCHANGED <<conv_vars, fit_vars, valid_vars, plugin_vars, thread_vars, cli_vars>>

\* lines 298-321: one iteration of the loop over the folder.  A file without
\* an image extension is skipped; an exception of a step is logged and the
\* loop continues with the next file, without appending this one.
BatchFile ==
    /\ tr_pc = "batch"
    /\ LET img == tr_images[tr_i + 1]
           run == RunOps(operations, 1, image_files, InputPath(img), OutputPath(img), <<>>)
       IN  IF img.ext \notin image_extensions
           THEN UNCHANGED <<image_files, tr_log, processed_paths>>
           ELSE /\ image_files' = run.fs
                /\ IF run.raised
                   THEN /\ tr_log' = tr_log \o run.log \o <<<<"error", run.at, img.id>>>>
                        /\ UNCHANGED processed_paths
                   ELSE /\ tr_log' = tr_log \o run.log
                        /\ processed_paths' = Append(processed_paths, run.path)
    /\ tr_i' = tr_i + 1
    /\ tr_pc' = IF tr_i + 1 = Len(tr_images) THEN "batch_done" ELSE "batch"
    /\ UNCHANGED <<tr_images, operations>>
    /\ UNCHANGED <<conv_vars, fit_vars, valid_vars, plugin_vars, thread_vars, cli_vars>>

(***************************************************************************)
(* ImageEffectsPlugin.process_image (plugins/image_effects/main.py) applied *)
(* to the images of a batch, one call per image                            *)
(***************************************************************************)
\* main.py lines 93-95: the file name without directory and extension, then
\* "_{effect}_processed.png", inside tempfile.gettempdir()
EffectOutput(image_path) ==
    [dir |-> "tmp", stem |-> Append(image_path.stem, "_blur_processed"), ext |-> ".png"]

\* a batch of distinct images handed to the plugin with effect='blur'
CallEffects ==
    /\ tr_pc = "idle"
    /\ \E images \in UNION { [1..n -> MainImages] : n \in 1..MaxImages } :
          /\ \A a, b \in DOMAIN images : a # b => images[a] # images[b]
          /\ tr_images' = images
          /\ image_files' = SourceFiles(images)
    /\ operations' = <<"process_image">>
    /\ tr_pc' = "effects"
    /\ UNCHANGED <<tr_i, processed_paths, tr_log>>
    /\ UNCHANGED <<conv_vars, fit_vars, valid_vars, plugin_vars, thread_vars, cli_vars>>

\* main.py lines 52-98: one call.  Image.open (line 67) raises for a file
\* that is no image and nothing catches it; otherwise the result is saved
\* as PNG at the output path, which is returned.
EffectsImage ==
    /\ tr_pc = "effects"
    /\ LET img == tr_images[tr_i + 1]
           image_path == InputPath(img)
           output_path == EffectOutput(image_path)
       IN  IF img.fails = StepNames
           THEN /\ tr_pc' = "effects_raised"
                /\ UNCHANGED <<tr_i, processed_paths, image_files>>
           ELSE /\ image_files' =
                     WriteFile(image_files, output_path,
                               [image_files[image_path] EXCEPT
                                  !.applied = Append(@, "process_image")])
                /\ processed_paths' = Append(processed_paths, output_path)
                /\ tr_i' = tr_i + 1
                /\ tr_pc' = IF tr_i + 1 = Len(tr_images) THEN "effects_done"
                            ELSE "effects"
    /\ UNCHANGED <<tr_images, operations, tr_log>>
    /\ UNCHANGED <<conv_vars, fit_vars, valid_vars, plugin_vars, thread_vars, cli_vars>>

(***************************************************************************)
(* Threads sharing the plugin manager                                      *)
(* get_plugin_manager (lines 444-449), load_plugin, get_plugin and         *)
(* unload_plugin take no lock, so a thread can be switched out between any *)
(* two statements.  One plugin name is used by all threads; a manager and  *)
(* a plugin instance are named after the thread that created them.         *)
(***************************************************************************)
Threads == {"main", "worker_a", "worker_b"}
None == "None"

ThreadStart == [pc |-> "start", mgr |-> None, holding |-> None, has_loaded |-> FALSE]

ThreadsIdle ==
    /\ g_plugin_manager = None
    /\ manager_plugins = <<>>
    /\ th = [t \in Threads |-> ThreadStart]

\* line 447: if _plugin_manager is None
TestManager ==
    \E t \in Threads :
       /\ th[t].pc = "start"
       /\ th' = [th EXCEPT ![t].pc = IF g_plugin_manager = None THEN "construct"
                                     ELSE "return"]
       /\ UNCHANGED <<g_plugin_manager, manager_plugins>>
       /\ UNCHANGED <<conv_vars, fit_vars, valid_vars, plugin_vars, transform_vars, cli_vars>>

\* line 448, right-hand side: PluginManager()
ConstructManager ==
    \E t \in Threads :
       /\ th[t].pc = "construct"
       /\ manager_plugins' = [m \in DOMAIN manager_plugins \cup {t} |->
                                IF m = t THEN None ELSE manager_plugins[m]]
       /\ th' = [th EXCEPT ![t].pc = "store"]
       /\ UNCHANGED g_plugin_manager
       /\ UNCHANGED <<conv_vars, fit_vars, valid_vars, plugin_vars, transform_vars, cli_vars>>

\* line 448, the assignment to the global
StoreManager ==
    \E t \in Threads :
       /\ th[t].pc = "store"
       /\ g_plugin_manager' = t
       /\ th' = [th EXCEPT ![t].pc = "return"]
       /\ UNCHANGED manager_plugins
       /\ UNCHANGED <<conv_vars, fit_vars, valid_vars, plugin_vars, transform_vars, cli_vars>>

\* line 449: return _plugin_manager
ReturnManager ==
    \E t \in Threads :
       /\ th[t].pc = "return"
       /\ th' = [th EXCEPT ![t].pc = "ready", ![t].mgr = g_plugin_manager]
       /\ UNCHANGED <<g_plugin_manager, manager_plugins>>
       /\ UNCHANGED <<conv_vars, fit_vars, valid_vars, plugin_vars, transform_vars, cli_vars>>

\* load_plugin lines 220-253: the name is not in self.plugins, the class is
\* imported and instantiated and initialize() runs
BeginLoad ==
    \E t \in Threads :
       /\ th[t].pc = "ready"
       /\ ~th[t].has_loaded
       /\ manager_plugins[th[t].mgr] = None
       /\ th' = [th EXCEPT ![t].pc = "loading", ![t].has_loaded = TRUE]
       /\ UNCHANGED <<g_plugin_manager, manager_plugins>>
       /\ UNCHANGED <<conv_vars, fit_vars, valid_vars, plugin_vars, transform_vars, cli_vars>>

\* load_plugin line 257: self.plugins[plugin_name] = plugin_instance
EndLoad ==
    \E t \in Threads :
       /\ th[t].pc = "loading"
       /\ manager_plugins' = [manager_plugins EXCEPT ![th[t].mgr] = t]
       /\ th' = [th EXCEPT ![t].pc = "ready"]
       /\ UNCHANGED g_plugin_manager
       /\ UNCHANGED <<conv_vars, fit_vars, valid_vars, plugin_vars, transform_vars, cli_vars>>

\* get_plugin (line 335) returned an instance and the caller enters its
\* process_image
BeginProcessImage ==
    \E t \in Threads :
       /\ th[t].pc = "ready"
       /\ manager_plugins[th[t].mgr] # None
       /\ th' = [th EXCEPT ![t].pc = "process_image",
                           ![t].holding = manager_plugins[th[t].mgr]]
       /\ UNCHANGED <<g_plugin_manager, manager_plugins>>
       /\ UNCHANGED <<conv_vars, fit_vars, valid_vars, plugin_vars, transform_vars, cli_vars>>

\* process_image returns
EndProcessImage ==
    \E t \in Threads :
       /\ th[t].pc = "process_image"
       /\ th' = [th EXCEPT ![t].pc = "ready", ![t].holding = None]
       /\ UNCHANGED <<g_plugin_manager, manager_plugins>>
       /\ UNCHANGED <<conv_vars, fit_vars, valid_vars, plugin_vars, transform_vars, cli_vars>>

\* unload_plugin lines 276-282: the name is in self.plugins and cleanup()
\* of the instance is entered
BeginUnload ==
    \E t \in Threads :
       /\ th[t].pc = "ready"
       /\ manager_plugins[th[t].mgr] # None
       /\ th' = [th EXCEPT ![t].pc = "cleanup",
                           ![t].holding = manager_plugins[th[t].mgr]]
       /\ UNCHANGED <<g_plugin_manager, manager_plugins>>
       /\ UNCHANGED <<conv_vars, fit_vars, valid_vars, plugin_vars, transform_vars, cli_vars>>

\* unload_plugin line 285: del self.plugins[plugin_name]; a KeyError, when
\* another thread has removed the entry, is caught at line 292
EndUnload ==
    \E t \in Threads :
       /\ th[t].pc = "cleanup"
       /\ manager_plugins' = [manager_plugins EXCEPT ![th[t].mgr] = None]
       /\ th' = [th EXCEPT ![t].pc = "ready", ![t].holding = None]
       /\ UNCHANGED g_plugin_manager
       /\ UNCHANGED <<conv_vars, fit_vars, valid_vars, plugin_vars, transform_vars, cli_vars>>

(***************************************************************************)
(* Validation of the command line: cli.validate_images and main, and the   *)
(* same statements in cli_enhanced.validate_and_filter_images and main     *)
(***************************************************************************)
MaxArgs == 3            \* longest list of paths given on the command line

\* The paths a command line may name, and whether os.path.exists finds them.
ArgPool ==
    { [path |-> <<"a", ".", "p", "n", "g">>, exists |-> TRUE],
      [path |-> <<"b", ".", "J", "P", "G">>, exists |-> TRUE],
      [path |-> <<"c", ".", "j", "p", "g">>, exists |-> FALSE],
      [path |-> <<"n", ".", "t", "x", "t">>, exists |-> TRUE],
      [path |-> <<".", "p", "n", "g">>, exists |-> TRUE],
      [path |-> <<"d">>, exists |-> FALSE] }

\* variant: only the extension is looked at
PassesValidation_ExtensionOnly(entry) == is_valid_image(entry.path, "posix")

\* cli.py lines 45-51: the two tests an entry has to pass
PassesValidation(entry) ==
    IF ~entry.exists THEN FALSE                                \* File not found
    ELSE IF ~is_valid_image(entry.path, "posix") THEN FALSE    \* Unsupported file format
    ELSE TRUE

CliIdle ==
    /\ cli_pc = "idle"
    /\ cli_args = <<>>
    /\ cli_i = 0
    /\ valid_images = <<>>

\* main, line 101: validate_images(args.images) is entered
CallValidate ==
    /\ cli_pc = "idle"
    /\ \E images \in UNION { [1..n -> ArgPool] : n \in 0..MaxArgs } :
          cli_args' = images
    /\ cli_pc' = "validating"
    /\ UNCHANGED <<cli_i, valid_images>>
    /\ UNCHANGED <<conv_vars, fit_vars, valid_vars, plugin_vars, transform_vars, thread_vars>>

\* validate_images lines 44-53: one iteration of the loop
ValidateEntry ==
    /\ cli_pc = "validating"
    /\ cli_i < Len(cli_args)
    /\ valid_images' = IF PassesValidation(cli_args[cli_i + 1])
                       THEN Append(valid_images, cli_args[cli_i + 1])
                       ELSE valid_images
    /\ cli_i' = cli_i + 1
    /\ UNCHANGED <<cli_pc, cli_args>>
    /\ UNCHANGED <<conv_vars, fit_vars, valid_vars, plugin_vars, transform_vars, thread_vars>>

\* validate_images line 55 and main lines 103-107: the list is returned; an
\* empty one ends the program with sys.exit(1), otherwise main goes on to
\* create the converter
AfterValidation ==
    /\ cli_pc = "validating"
    /\ cli_i = Len(cli_args)
    /\ cli_pc' = IF valid_images = <<>> THEN "exit1" ELSE "converting"
    /\ UNCHANGED <<cli_args, cli_i, valid_images>>
    /\ UNCHANGED <<conv_vars, fit_vars, valid_vars, plugin_vars, transform_vars, thread_vars>>

(***************************************************************************)
(* Specifications                                                          *)
(***************************************************************************)
\* a fresh PDFConverter; the output path may or may not hold a file already
Init ==
    /\ ConvIdle
    /\ out_file \in {NoFile, OldFile}
    /\ FitIdle /\ ValidIdle /\ PluginsIdle /\ TransformIdle /\ ThreadsIdle /\ CliIdle

Next ==
    \/ CallConvert
    \/ CheckEmpty
    \/ PrepareImage
    \/ OpenOutput
    \/ WritePdf
    \/ ReportProgress
    \/ Del

Spec == Init /\ [][Next]_vars

\* one PDFConverter object that is called, and called again once the first
\* call has returned or raised
NextReuse ==
    \/ CallConvertAgain
    \/ CheckEmpty
    \/ PrepareImage
    \/ OpenOutput
    \/ WritePdf
    \/ ReportProgress
    \/ Del

SpecReuse == Init /\ [][NextReuse]_vars

InitFit ==
    /\ fit_in \in PageSizeNames \X Dims \X Dims
    /\ fit_out = <<>>
    /\ ConvIdle /\ out_file = NoFile
    /\ ValidIdle /\ PluginsIdle /\ TransformIdle /\ ThreadsIdle /\ CliIdle

NextFit == ApplyFit

SpecFit == InitFit /\ [][NextFit]_vars

InitValid ==
    /\ os_name \in {"posix", "nt"}
    /\ file_path \in TestPaths
    /\ valid_result = "pending"
    /\ ConvIdle /\ out_file = NoFile
    /\ FitIdle /\ PluginsIdle /\ TransformIdle /\ ThreadsIdle /\ CliIdle

NextValid == IsValidImageCall

SpecValid == InitValid /\ [][NextValid]_vars

\* a fresh PluginManager over some content of the plugin directory
InitPlugins ==
    /\ disk \in [PluginDirs -> PluginKinds]
    /\ plugin_metadata = <<>>
    /\ plugins = <<>>
    /\ sys_path = <<>>
    /\ sys_modules = <<>>
    /\ next_id = 1
    /\ hooks = <<>>
    /\ last_call = NoCall
    /\ ConvIdle /\ out_file = NoFile
    /\ FitIdle /\ ValidIdle /\ TransformIdle /\ ThreadsIdle /\ CliIdle

NextPlugins ==
    \/ DiscoverPlugins
    \/ LoadPlugin
    \/ UnloadPlugin
    \/ ReloadPlugin
    \/ LoadAllPlugins

SpecPlugins == InitPlugins /\ [][NextPlugins]_vars

InitHooks ==
    /\ PluginsIdle
    /\ ConvIdle /\ out_file = NoFile
    /\ FitIdle /\ ValidIdle /\ TransformIdle /\ ThreadsIdle /\ CliIdle

NextHooks ==
    \/ RegisterHook
    \/ UnregisterHook
    \/ ExecuteHook

SpecHooks == InitHooks /\ [][NextHooks]_vars

InitTransform ==
    /\ TransformIdle
    /\ ConvIdle /\ out_file = NoFile
    /\ FitIdle /\ ValidIdle /\ PluginsIdle /\ ThreadsIdle /\ CliIdle

NextTransform ==
    \/ CallMain
    \/ TransformImage
    \/ CallBatch
    \/ BatchFile
    \/ CallEffects
    \/ EffectsImage

SpecTransform == InitTransform /\ [][NextTransform]_vars

InitThreads ==
    /\ ThreadsIdle /\ CliIdle
    /\ ConvIdle /\ out_file = NoFile
    /\ FitIdle /\ ValidIdle /\ PluginsIdle /\ TransformIdle

NextThreads ==
    \/ TestManager
    \/ ConstructManager
    \/ StoreManager
    \/ ReturnManager
    \/ BeginLoad
    \/ EndLoad
    \/ BeginProcessImage
    \/ EndProcessImage
    \/ BeginUnload
    \/ EndUnload

SpecThreads == InitThreads /\ [][NextThreads]_vars

InitCli ==
    /\ CliIdle
    /\ ConvIdle /\ out_file = NoFile
    /\ FitIdle /\ ValidIdle /\ PluginsIdle /\ TransformIdle /\ ThreadsIdle

NextCli ==
    \/ CallValidate
    \/ ValidateEntry
    \/ AfterValidation

SpecCli == InitCli /\ [][NextCli]_vars

(***************************************************************************)
(* Properties                                                              *)
(***************************************************************************)
ConvFinished == pc \in {"returned", "raised"}
PrepareFailures == {"open", "resize", "save"}
PackagingFailures == {"open_output", "img2pdf", "write"}

\* C1: a call with an empty image list raises ValueError at the check, with
\* no image prepared, no packaging, no callback invocation, and the file at
\* output_path as it was before the call.
C1_EmptyListRaisesFirst ==
    (image_paths = <<>> /\ pc \notin {"idle", "entered"}) =>
        /\ pc = "raised"
        /\ exc = [type |-> "ValueError", at |-> "empty"]
        /\ prepared_paths = <<>>
        /\ DOMAIN temp_dir = {}
        /\ packaged = <<>>
        /\ progress_values = <<>>
        /\ out_file = out_before

C1_Witness ==
    /\ pc = "raised"
    /\ image_paths = <<>>
    /\ exc.at = "empty"
    /\ out_before = OldFile

AllPrepare ==
    \A k \in 1..Len(image_paths) : PrepareOutcome(image_paths[k], page_size) = "ok"

\* C2: when every image of a non-empty list prepares, preparation does not
\* raise, the packaging step is handed exactly one prepared image per input,
\* the k-th made from the k-th input, and so are the pages it writes.
C2_PagesFollowInputOrder ==
    (image_paths # <<>> /\ AllPrepare) =>
        /\ pc = "raised" => exc.at \notin PrepareFailures
        /\ \A c \in 1..Len(packaged) :
              /\ Len(packaged[c]) = Len(image_paths)
              /\ \A k \in 1..Len(image_paths) : packaged[c][k].src = image_paths[k].id
        /\ pc \in {"reporting", "returned"} =>
              /\ Len(packaged) = 1
              /\ Len(out_file.pages) = Len(image_paths)
              /\ \A k \in 1..Len(image_paths) : out_file.pages[k].src = image_paths[k].id

C2_Witness ==
    /\ pc = "returned"
    /\ Len(image_paths) = 2
    /\ image_paths[1].id # image_paths[2].id
    /\ image_paths[1].ext = image_paths[2].ext
    /\ page_size = "A4"
    /\ Len(out_file.pages) = 2

\* C3: a call that returns and was given a callback has invoked it at least
\* once, with values in [0,1] that never decrease, the last one being 1.0.
C3_ProgressEndsAtOne ==
    (pc = "returned" /\ callback # "none") =>
        /\ progress_values # <<>>
        /\ \A k \in 1..Len(progress_values) :
              /\ progress_values[k][2] > 0
              /\ 0 <= progress_values[k][1]
              /\ progress_values[k][1] <= progress_values[k][2]
        /\ \A k \in 1..(Len(progress_values) - 1) :
              progress_values[k][1] * progress_values[k + 1][2]
                  <= progress_values[k + 1][1] * progress_values[k][2]
        /\ progress_values[Len(progress_values)][1] = progress_values[Len(progress_values)][2]

C3_Witness ==
    /\ pc = "returned"
    /\ callback = "ok"
    /\ Len(image_paths) = 2

\* the images of the list that Image.open and img.save accept
GoodImages == SelectSeq(image_paths, LAMBDA img : img.openable /\ img.ext \in SavableExts)

\* C4: a batch holding an image with an unsupported extension or one that
\* cannot be opened, next to valid ones, is not failed by preparation: the
\* call raises only for an empty list or a packaging failure, and when it
\* returns, the document has one page per remaining valid image.
C4_BadImageIsSkipped ==
    (ConvFinished /\ GoodImages # <<>> /\ Len(GoodImages) < Len(image_paths)) =>
        /\ pc = "raised" => exc.at \notin PrepareFailures
        /\ pc = "returned" =>
              /\ Len(out_file.pages) = Len(GoodImages)
              /\ \A k \in 1..Len(GoodImages) : out_file.pages[k].src = GoodImages[k].id

\* what load_plugin makes of a folder when no other plugin is involved
LoadsOnItsOwn(name) ==
    /\ disk[name].enabled
    /\ disk[name].has_file
    /\ disk[name].defines = disk[name].plugin_class
    /\ disk[name].is_plugin
    /\ disk[name].init = "True"

\* C5: load_all_plugins reports on every discovered plugin; one that cannot
\* load (import or class lookup fails, initialize() returns false or raises)
\* is reported False and is not loaded, and every plugin that loads on its
\* own is loaded and reported True, wherever it stands in the order.
C5_LoadFailuresAreIsolated ==
    last_call.op = "load_all_plugins" =>
        \A name \in PluginDirs :
            /\ name \in DOMAIN last_call.results
            /\ LoadsOnItsOwn(name) =>
                  (last_call.results[name] /\ name \in DOMAIN plugins)
            /\ ~LoadsOnItsOwn(name) =>
                  (~last_call.results[name] /\ name \notin DOMAIN plugins)

\* C6: for a fixed page size the fitted size stays within the page, and one
\* of its two dimensions is the page's.
C6_FitWithinPage ==
    fit_out # <<>> =>
        /\ fit_out[1] <= PAGE_SIZES[fit_in[1]][1]
        /\ fit_out[2] <= PAGE_SIZES[fit_in[1]][2]
        /\ \/ fit_out[1] = PAGE_SIZES[fit_in[1]][1]
           \/ fit_out[2] = PAGE_SIZES[fit_in[1]][2]

C6_Witness ==
    /\ fit_in = <<"A4", 100, 50>>
    /\ fit_out = <<595, 297>>

\* C7: a call that raises does not invoke the callback after the failure: if
\* the empty check, preparation or packaging failed, the callback was never
\* invoked (so 1.0 was not reported), and if the callback itself raised,
\* that invocation was the only one.
C7_NoProgressAfterFailure ==
    pc = "raised" =>
        /\ exc.at # "callback" => progress_values = <<>>
        /\ exc.at = "callback" => Len(progress_values) = 1

C7_Witness ==
    /\ pc = "raised"
    /\ exc.at = "write"
    /\ callback = "ok"
    /\ Len(image_paths) = 2

\* a path ends in a supported extension: its last characters, lowered, spell
\* one, and its last component has a character other than a dot before them
HasSupportedExtension(str, os) ==
    \E e \in SUPPORTED_FORMATS :
        /\ Len(str) > Len(e)
        /\ Lower(SubSeq(str, Len(str) - Len(e) + 1, Len(str))) = e
        /\ \E k \in 1..(Len(str) - Len(e)) :
              /\ str[k] # "."
              /\ \A j \in k..(Len(str) - Len(e)) : str[j] \notin Seps(os)

\* C8: is_valid_image is True exactly for the paths whose final extension is,
\* in any letter case, one of the six supported ones; the answer is a
\* function of the path.
C8_ValidIffSupportedExtension ==
    valid_result # "pending" =>
        (valid_result = "True" <=> HasSupportedExtension(file_path, os_name))

C8_Witness ==
    /\ valid_result = "True"
    /\ file_path = <<"/", "a", ".", "J", "p", "E", "g">>

RegisteredUnder(hook_name) ==
    IF hook_name \in DOMAIN hooks THEN hooks[hook_name] ELSE <<>>

ReturningCallbacks(cbs) == SelectSeq(cbs, LAMBDA c : ~CallbackPool[c].raises)

\* C9: execute_hook calls every callback registered under the name once, in
\* registration order, also after one has raised; it returns the results of
\* those that returned, in order, lets no exception out, and returns an empty
\* list when nothing is registered.
C9_HookCallbacksIsolated ==
    last_call.op = "execute_hook" =>
        LET cbs == RegisteredUnder(last_call.arg)
        IN  /\ last_call.called = cbs
            /\ last_call.ret = "list"
            /\ Len(last_call.results) = Len(ReturningCallbacks(cbs))
            /\ \A k \in 1..Len(last_call.results) :
                  last_call.results[k] = CallbackPool[ReturningCallbacks(cbs)[k]].value

C9_Witness ==
    /\ last_call.op = "execute_hook"
    /\ last_call.called = <<"log_start", "broken", "count">>
    /\ last_call.results = <<"started", "counted">>

UnloadedALoadedPlugin ==
    /\ last_call.op = "unload_plugin"
    /\ last_call.arg \in DOMAIN last_call.before

OthersUntouched ==
    /\ DOMAIN plugins \subseteq DOMAIN last_call.before
    /\ \A n \in DOMAIN last_call.before \ {last_call.arg} :
          n \in DOMAIN plugins /\ plugins[n] = last_call.before[n]

\* C10 as claimed: after unload_plugin on a loaded plugin its cleanup() has
\* run once and the plugin has left the loaded set, whatever cleanup() did;
\* no other loaded plugin is affected.
C10_UnloadAlwaysRemoves ==
    UnloadedALoadedPlugin =>
        /\ last_call.cleanups = <<last_call.before[last_call.arg]>>
        /\ last_call.arg \notin DOMAIN plugins
        /\ OthersUntouched

\* C10 amended: after unload_plugin on a loaded plugin its cleanup() has run
\* once; if cleanup() returned (true or false) the plugin has left the loaded
\* set and the call returns True; if cleanup() raised the plugin stays loaded
\* with the same instance and the call returns False; no other loaded plugin
\* is affected.
C10_UnloadRemovesUnlessCleanupRaises ==
    UnloadedALoadedPlugin =>
        LET plugin == last_call.before[last_call.arg]
        IN  /\ last_call.cleanups = <<plugin>>
            /\ disk[plugin.cls].cleanup # "raise" =>
                  (last_call.arg \notin DOMAIN plugins /\ last_call.ret = "True")
            /\ disk[plugin.cls].cleanup = "raise" =>
                  /\ last_call.arg \in DOMAIN plugins
                  /\ plugins[last_call.arg] = plugin
                  /\ last_call.ret = "False"
            /\ OthersUntouched

C10_Witness ==
    /\ UnloadedALoadedPlugin
    /\ disk[last_call.before[last_call.arg].cls].cleanup = "raise"
    /\ Cardinality(DOMAIN last_call.before) = 2
    /\ last_call.ret = "False"

\* C11: reload_plugin(name) is unload_plugin(name) followed by
\* load_plugin(name).  The old instance's cleanup() is the first thing that
\* happens and no initialize() of the call precedes it; when cleanup()
\* raises, the unload fails, no load is attempted (no initialize() runs, the
\* loaded set is as before) and the call returns False; the call returns
\* True only when the plugin is loaded afterwards, and then a plugin that
\* was loaded before holds a new instance, created after the old one's
\* cleanup.
ReloadedPlugin == last_call.op = "reload_plugin"
WasLoaded == ReloadedPlugin /\ last_call.arg \in DOMAIN last_call.before
OldInstance == last_call.before[last_call.arg]

C11_ReloadIsUnloadThenLoad ==
    ReloadedPlugin =>
      LET name == last_call.arg
          ev == last_call.events
      IN  /\ \A a, b \in DOMAIN ev :
                (ev[a][1] = "initialize" /\ ev[b][1] = "cleanup") => b < a
          /\ WasLoaded =>
                /\ ev # <<>> /\ ev[1] = <<"cleanup", OldInstance>>
                /\ disk[OldInstance.cls].cleanup = "raise" =>
                      /\ last_call.ret = "False"
                      /\ Len(ev) = 1
                      /\ plugins = last_call.before
          /\ ~WasLoaded => \A a \in DOMAIN ev : ev[a][1] # "cleanup"
          /\ last_call.ret = "True" <=>
                /\ name \in DOMAIN plugins
                /\ ~(WasLoaded /\ disk[OldInstance.cls].cleanup = "raise")
          /\ (last_call.ret = "True" /\ WasLoaded) =>
                /\ plugins[name].id # OldInstance.id
                /\ ev = <<<<"cleanup", OldInstance>>, <<"initialize", plugins[name]>>>>

C11_Witness ==
    /\ WasLoaded
    /\ last_call.ret = "True"
    /\ last_call.events = <<<<"cleanup", OldInstance>>,
                            <<"initialize", plugins[last_call.arg]>>>>
    /\ plugins[last_call.arg].id # OldInstance.id

\* C12: with page_size 'FIT' preparation does not resize: every prepared
\* file has the pixel size of its source image, and every page of the
\* written document has the size of its own image.
C12_FitKeepsEachImageSize ==
    page_size = "FIT" =>
      /\ \A k \in 1..Len(prepared_paths) :
            prepared_paths[k] \in DOMAIN temp_dir =>
              /\ temp_dir[prepared_paths[k]].w = image_paths[k].w
              /\ temp_dir[prepared_paths[k]].h = image_paths[k].h
      /\ \A j \in DOMAIN packaged : \A k \in DOMAIN packaged[j] :
            /\ packaged[j][k].w = image_paths[k].w
            /\ packaged[j][k].h = image_paths[k].h
      /\ out_file.state = "pdf" =>
            /\ Len(out_file.pages) = Len(image_paths)
            /\ \A k \in 1..Len(image_paths) :
                  out_file.pages[k].page = <<image_paths[k].w, image_paths[k].h>>

C12_Witness ==
    /\ page_size = "FIT"
    /\ pc = "returned"
    /\ Len(image_paths) = 2
    /\ out_file.pages[1].page = <<100, 50>>
    /\ out_file.pages[2].page = <<1, 2000>>

\* C13: when a convert call has returned or raised, no file that the call
\* created in the temporary directory is left.
C13_TempFilesDeletedWhenCallEnds ==
    ConvFinished => DOMAIN temp_dir = {}

\* C14 as claimed: no convert call starts on an object whose earlier call
\* has returned or raised.
C14_FinishedInstanceTakesNoCall ==
    earlier = <<>>

\* C14: an object whose call has returned or raised takes another call, and
\* that call runs as a first call does: the files the earlier call left in
\* the temporary directory are still there but are not packaged, an empty
\* list raises ValueError, and a call that returns has written one page per
\* image of its own list, in order.
C14_SecondCallRunsLikeFirst ==
    earlier # <<>> =>
      /\ \A p \in DOMAIN earlier[1].temp_dir : alive => p \in DOMAIN temp_dir
      /\ (image_paths = <<>> /\ pc \notin {"entered"}) =>
            (pc = "raised" /\ exc = [type |-> "ValueError", at |-> "empty"])
      /\ \A j \in DOMAIN packaged :
            /\ Len(packaged[j]) = Len(image_paths)
            /\ \A k \in DOMAIN image_paths : packaged[j][k].src = image_paths[k].id
      /\ pc = "returned" =>
            /\ out_file.state = "pdf"
            /\ Len(out_file.pages) = Len(image_paths)
            /\ \A k \in DOMAIN image_paths : out_file.pages[k].src = image_paths[k].id

\* a second call that returns although files of the first are in the directory
C14_Witness ==
    /\ earlier # <<>>
    /\ pc = "returned"
    /\ Len(image_paths) = 1
    /\ Len(earlier[1].image_paths) = 2
    /\ Cardinality(DOMAIN temp_dir) > Len(image_paths)

\* C16 as claimed: the quality given to the encoder of a prepared image is
\* within 1..100, whatever integer the caller passed.
C16_QualityWithinRange ==
    \A p \in DOMAIN temp_dir :
        compress => temp_dir[p].quality \in 1..100

\* C16: the quality given to the encoder is the caller's value, unchanged,
\* when compress is true (values outside 1..100 included), and no quality is
\* given when compress is false.
C16_QualityPassedUnchanged ==
    \A p \in DOMAIN temp_dir :
        temp_dir[p].quality = IF compress THEN compression_quality ELSE -1

C16_Witness ==
    /\ compress
    /\ compression_quality = 150
    /\ pc = "returned"
    /\ \E p \in DOMAIN temp_dir : temp_dir[p].quality = 150

PastPreparation == pc \in {"packaging", "writing", "reporting", "returned"}

C20_PhasesInOrder ==
    /\ (pc \in {"preparing"} \/ PastPreparation) => image_paths # <<>>
    /\ PastPreparation =>
          /\ Len(prepared_paths) = Len(image_paths)
          /\ \A k \in DOMAIN image_paths :
                prepared_paths[k] = TempPath(k - 1, image_paths[k].ext)
    /\ (out_file # out_before \/ packaged # <<>>) =>
          Len(prepared_paths) = Len(image_paths)
    /\ Len(packaged) <= 1
    /\ \A j \in DOMAIN packaged :
          /\ Len(packaged[j]) = Len(image_paths)
          /\ \A k \in DOMAIN image_paths : packaged[j][k].src = image_paths[k].id
    /\ pc \in {"packaging", "writing"} => packaged = <<>>
    /\ progress_values # <<>> =>
          /\ progress_values = <<FinalProgress>>
          /\ Len(packaged) = 1
          /\ out_file.state = "pdf"
    /\ pc \in {"reporting", "returned"} =>
          (Len(packaged) = 1 /\ out_file.state = "pdf")
    /\ pc = "reporting" => progress_values = <<>>

C20_Witness ==
    /\ pc = "returned"
    /\ Len(image_paths) = 2
    /\ Len(packaged) = 1
    /\ progress_values = <<FinalProgress>>

\* C15: a transform step that fails for an image is captured: the run is not
\* ended by it and the image is not dropped, so every image file the loop
\* has handled has its entry in the list of processed paths.
ImagesHandled == { k \in 1..tr_i : tr_images[k].ext \in image_extensions }

C15_StepFailureIsPassedThrough ==
    /\ tr_pc # "exit1"
    /\ Len(processed_paths) = Cardinality(ImagesHandled)

\* C18: get_plugin_manager gives every caller the same object, also when the
\* first calls overlap: at most one PluginManager is ever created, and the
\* managers any two threads have been given are the same.
C18_OneManagerForAllThreads ==
    /\ Cardinality(DOMAIN manager_plugins) <= 1
    /\ \A a, b \in Threads :
          (th[a].mgr # None /\ th[b].mgr # None) => th[a].mgr = th[b].mgr

\* C19: no two threads are inside process_image of the same instance, and
\* while a thread is inside process_image no other thread is unloading that
\* instance (inside its cleanup) or loading the plugin into that manager.
C19_PluginCallsAreExclusive ==
    \A a, b \in Threads :
        (a # b /\ th[a].pc = "process_image") =>
          /\ ~(th[b].pc = "process_image" /\ th[b].holding = th[a].holding)
          /\ ~(th[b].pc = "cleanup" /\ th[b].holding = th[a].holding)
          /\ ~(th[b].pc = "loading" /\ th[b].mgr = th[a].mgr)

\* C21: when every image is prepared and packaging is about to start, a
\* callback has been given k/N for k = 1..N, N the number of images.
C21_ProgressAfterEachImage ==
    (callback # "none" /\ pc = "packaging") =>
      progress_values = [k \in 1..Len(image_paths) |-> <<k, Len(image_paths)>>]

\* the fit computed with exact integer arithmetic
FloorFit(page, img_width, img_height) ==
    LET pdf_width == PAGE_SIZES[page][1]
        pdf_height == PAGE_SIZES[page][2]
    IN  IF img_width * pdf_height > pdf_width * img_height
        THEN <<pdf_width, (pdf_width * img_height) \div img_width>>
        ELSE <<(pdf_height * img_width) \div img_height, pdf_height>>

\* C22: the fitted size is (Pw, floor(Pw*H/W)) when W/H > Pw/Ph and
\* (floor(Ph*W/H), Ph) otherwise.
C22_FitIsExactFloor ==
    fit_out # <<>> => fit_out = FloorFit(fit_in[1], fit_in[2], fit_in[3])

\* C28 as claimed: whenever the call raises, the file at output_path is as
\* it was before the call.
C28_OutputUntouchedOnRaise ==
    pc = "raised" => out_file = out_before

\* C28: when the call raises before the output file is opened (empty list,
\* preparation error, failing open) the file at output_path is as before
\* the call; when img2pdf raises the file is left empty, when the write
\* fails it is left partial, and when the callback raises the complete
\* document has been written.
C28_OutputAfterRaise ==
    pc = "raised" =>
      /\ exc.at \in ({"empty", "open_output"} \cup PrepareFailures) => out_file = out_before
      /\ exc.at = "img2pdf" => out_file = [state |-> "empty", pages |-> <<>>]
      /\ exc.at = "write" => out_file = [state |-> "partial", pages |-> <<>>]
      /\ exc.at = "callback" =>
            (out_file.state = "pdf" /\ Len(out_file.pages) = Len(image_paths))

C28_Witness ==
    /\ pc = "raised"
    /\ exc.at = "img2pdf"
    /\ out_before = OldFile
    /\ out_file.state = "empty"

\* C29: for every fixed page size and every image of width and height at
\* least 1, both fitted dimensions are at least 1.
C29_FittedSizeNotEmpty ==
    fit_out # <<>> => (fit_out[1] >= 1 /\ fit_out[2] >= 1)

\* C23: validation keeps exactly the entries that exist and have a supported
\* extension, in input order and multiplicity; it looks at every entry,
\* whatever the earlier ones were; an empty result ends the run with exit
\* status 1 before a converter is called, so no output file is created, and
\* a non-empty result lets the run go on.
ShouldBeKept(entry) == entry.exists /\ HasSupportedExtension(entry.path, "posix")

C23_ValidationKeepsExactlyValidEntries ==
    /\ valid_images = SelectSeq(SubSeq(cli_args, 1, cli_i), ShouldBeKept)
    /\ cli_pc \in {"exit1", "converting"} => cli_i = Len(cli_args)
    /\ cli_pc = "exit1" => (valid_images = <<>> /\ pc = "idle" /\ out_file = NoFile)
    /\ cli_pc = "converting" => valid_images # <<>>

C23_Witness ==
    /\ cli_pc = "converting"
    /\ Len(cli_args) = 3
    /\ ~cli_args[1].exists
    /\ ~HasSupportedExtension(cli_args[2].path, "posix")
    /\ valid_images = <<cli_args[3]>>

\* the runs of cli_enhanced.main that apply auto_rotate_image and nothing else
OnlyAutoRotate ==
    /\ operations = <<"auto_rotate">>
    /\ tr_pc \in {"processing", "converting", "exit1"}

C25_LoadedSetIsWellFormed ==
    /\ \A name \in DOMAIN plugins :
          /\ InSeq(plugin_metadata, name)
          /\ disk[name].enabled
          /\ disk[plugins[name].cls].is_plugin
          /\ disk[plugins[name].cls].init = "True"
    /\ (last_call.op = "load_plugin" /\
          (~InSeq(plugin_metadata, last_call.arg) \/ ~disk[last_call.arg].enabled)) =>
            /\ last_call.ret = "False"
            /\ plugins = last_call.before
            /\ last_call.inits = <<>>

C25_Witness ==
    /\ last_call.op = "load_plugin"
    /\ InSeq(plugin_metadata, last_call.arg)
    /\ ~disk[last_call.arg].enabled
    /\ last_call.ret = "False"
    /\ plugins # <<>>

\* C26: load_plugin of a loaded plugin returns True, creates and initializes
\* nothing and keeps the instance; unload_plugin of a plugin that is not
\* loaded returns True, calls no cleanup() and leaves the loaded set as it
\* was.
C26_RedundantCallsAreNoOps ==
    /\ (last_call.op = "load_plugin" /\ last_call.arg \in DOMAIN last_call.before) =>
          /\ last_call.ret = "True"
          /\ last_call.events = <<>>
          /\ plugins = last_call.before
    /\ (last_call.op = "unload_plugin" /\ last_call.arg \notin DOMAIN last_call.before) =>
          /\ last_call.ret = "True"
          /\ last_call.events = <<>>
          /\ plugins = last_call.before

C26_Witness ==
    /\ last_call.op = "unload_plugin"
    /\ last_call.arg \notin DOMAIN last_call.before
    /\ last_call.before # <<>>
    /\ last_call.ret = "True"
    /\ plugins = last_call.before

\* C27: no hook list holds a callback twice; register_hook returns True
\* exactly when the callback was not in the list, and then it is the new
\* last entry; unregister_hook returns True exactly when the callback was
\* in the list, and then it is gone and the others keep their order; a call
\* that returns False leaves every list as it was.
ListBefore(hook_name) ==
    IF hook_name \in DOMAIN last_call.before THEN last_call.before[hook_name] ELSE <<>>

OtherListsKept ==
    \A n \in HookNames \ {last_call.arg} :
        /\ n \in DOMAIN hooks <=> n \in DOMAIN last_call.before
        /\ n \in DOMAIN hooks => hooks[n] = last_call.before[n]

C27_HookListsHaveNoDuplicates ==
    /\ \A n \in DOMAIN hooks : \A a, b \in DOMAIN hooks[n] :
          a # b => hooks[n][a] # hooks[n][b]
    /\ last_call.op = "register_hook" =>
          /\ last_call.ret = "True" <=> ~InSeq(ListBefore(last_call.arg), last_call.cb)
          /\ hooks[last_call.arg] =
                IF last_call.ret = "True"
                THEN Append(ListBefore(last_call.arg), last_call.cb)
                ELSE ListBefore(last_call.arg)
          /\ OtherListsKept
    /\ last_call.op = "unregister_hook" =>
          /\ last_call.ret = "True" <=> InSeq(ListBefore(last_call.arg), last_call.cb)
          /\ last_call.ret = "True" =>
                hooks[last_call.arg] =
                  SelectSeq(ListBefore(last_call.arg), LAMBDA c : c # last_call.cb)
          /\ last_call.ret = "False" => hooks = last_call.before
          /\ OtherListsKept

C27_Witness ==
    /\ last_call.op = "unregister_hook"
    /\ last_call.ret = "True"
    /\ Len(ListBefore(last_call.arg)) = 3
    /\ ListBefore(last_call.arg)[2] = last_call.cb
    /\ Len(hooks[last_call.arg]) = 2

\* C30: when the images of a batch are distinct and the steps of main (with
\* their default output paths) or the plugin's process_image are applied to
\* them, every source file of the batch keeps its content, the outputs of
\* two images are two files, and the output of an image holds that image.
DistinctBatch ==
    /\ tr_pc \in {"processing", "converting", "effects", "effects_done"}
    /\ \A a, b \in DOMAIN tr_images : a # b => tr_images[a] # tr_images[b]

C30_DistinctImagesDistinctOutputs ==
    DistinctBatch =>
      /\ \A k \in DOMAIN tr_images :
            image_files[InputPath(tr_images[k])] =
              [src |-> tr_images[k].id, applied |-> <<>>]
      /\ \A a, b \in DOMAIN processed_paths :
            a # b => processed_paths[a] # processed_paths[b]
      /\ \A k \in DOMAIN processed_paths :
            image_files[processed_paths[k]].src = tr_images[k].id

====
